---- MODULE Spec2Model ----
(***************************************************************************)
(* godhcpd: the per-pool lease allocator of internal/pool.go as a state    *)
(* machine.  One pool actor (Pool.Run) takes either a ticker event or a    *)
(* message from its Receiver channel, and handles it to completion.        *)
(*                                                                         *)
(* Representation.  A net.IP and a uint32 are both a tuple of four octets, *)
(* most significant first (the code builds its uint32 from the four octets *)
(* of the address and takes it apart again); the nil slice is <<>>.  The   *)
(* uint32 operators +, -, |, &, ^ are computed octet by octet, modulo      *)
(* 2^32.  Instants are counted in periods of the pool's ticker: time.Now() *)
(* is the number of the period the step falls in, the first being 1, and   *)
(* the zero time.Time is 0.                                                *)
(***************************************************************************)
EXTENDS Naturals, Sequences, FiniteSets

VARIABLES
    pool,     \* the Pool struct: Leases, Network, Start, End, Lifetime, Algorithm
    now,      \* time.Now(): the ticker period the actor is in
    msg,      \* <<m>>: the message the last step took from pool.Receiver; <<>>: none
    out,      \* the messages the last step sent on the sender channel, in order
    log,      \* the lines the last step printed, as [text, ip] records
    alive,    \* FALSE once a goroutine has panicked (the process is gone)
    run,      \* the clients of the DISCOVERs handled so far, in order, while
              \* nothing else has been handled; Broken afterwards
    calc,     \* the last call of a function of the codec or of the pool on
              \* its own: [op, arg, res]
    receiver, \* the channel of UDPReceiver: [q, closed]; an entry is the
              \* DirectedDHCPMessage dm, with the number n of its datagram in
              \* the order of arrival and whether the decoding succeeded (ok)
    inbox,    \* pool.Receiver: [q, closed], entries as in receiver
    sender,   \* the channel of UDPSender: [q, closed]; an entry is the
              \* DirectedDHCPMessage dm with the number p of the reply in the
              \* order the pool produced it
    wire,     \* the entries of sender written to the socket, in order
    task,     \* where each task is: main ("loop", "closePools",
              \* "closeSender", "return", "exited"), receiver, pool and
              \* sender ("run", "done"), and whether a send on a closed
              \* channel has panicked
    seen      \* the datagrams arrived and the replies produced so far
              \* (numbers), and the entries the pool has taken, in order

vars == <<pool, now, msg, out, log, alive, run, calc,
          receiver, inbox, sender, wire, task, seen>>

-----------------------------------------------------------------------------
(* Bounds of the model. *)

\* the last ticker period
MaxNow == 3

-----------------------------------------------------------------------------
(* uint32 and octet arithmetic, as the Go operators compute it. *)

RECURSIVE AndBits(_, _, _)
AndBits(a, b, n) ==
    IF n = 0 THEN 0
    ELSE (a % 2) * (b % 2) + 2 * AndBits(a \div 2, b \div 2, n - 1)

\* & on two half-octets, tabulated
And4[a \in 0..15, b \in 0..15] == AndBits(a, b, 4)

\* & on two octets
And8(a, b) ==
    IF a = 0 \/ b = 0 THEN 0
    ELSE 16 * And4[a \div 16, b \div 16] + And4[a % 16, b % 16]

\* | on two octets
Or8(a, b) == a + b - And8(a, b)

\* ^x on an octet
Not8(a) == 255 - a

\* x & y on uint32
And32(x, y) == <<And8(x[1], y[1]), And8(x[2], y[2]), And8(x[3], y[3]), And8(x[4], y[4])>>

\* x | y on uint32
Or32(x, y) == <<Or8(x[1], y[1]), Or8(x[2], y[2]), Or8(x[3], y[3]), Or8(x[4], y[4])>>

\* ^x on uint32
Not32(x) == <<Not8(x[1]), Not8(x[2]), Not8(x[3]), Not8(x[4])>>

\* x + y on uint32: wraps modulo 2^32
Add32(x, y) ==
    LET s4 == x[4] + y[4]
        s3 == x[3] + y[3] + s4 \div 256
        s2 == x[2] + y[2] + s3 \div 256
        s1 == x[1] + y[1] + s2 \div 256
    IN  <<s1 % 256, s2 % 256, s3 % 256, s4 % 256>>

\* x - y on uint32: wraps modulo 2^32
Sub32(x, y) == Add32(Add32(x, Not32(y)), <<0, 0, 0, 1>>)

\* uint32(n) of a small non-negative int
U32(n) == <<(n \div 16777216) % 256, (n \div 65536) % 256, (n \div 256) % 256, n % 256>>

\* the uint32 built from the four octets of a 4-byte net.IP
Uint32OfIP(ip) == <<ip[1], ip[2], ip[3], ip[4]>>

\* net.IPv4(a, b, c, d); the model keeps the 4-byte form To4 returns
IPv4(a, b, c, d) == <<a, b, c, d>>

IPv4zero == IPv4(0, 0, 0, 0)

\* the nil net.IP
NilIP == <<>>

\* ip.To4(): the 4-byte form of an IPv4 address, nil for anything else
To4(ip) ==
    IF Len(ip) = 4 THEN ip
    ELSE IF /\ Len(ip) = 16
            /\ \A i \in 1..10 : ip[i] = 0
            /\ ip[11] = 255 /\ ip[12] = 255
         THEN <<ip[13], ip[14], ip[15], ip[16]>>
         ELSE NilIP

\* a.Equal(b) of net.IP: the 4-byte and the 16-byte form of an address are equal
IPEqual(a, b) == IF To4(a) # NilIP /\ To4(b) # NilIP THEN To4(a) = To4(b) ELSE a = b

-----------------------------------------------------------------------------
(* Constants of the program. *)

BootRequest == 1
BootReply == 2
BootpEthernet == 1
BootpBroadcast == 32768

DHCPUnknown == 0
DHCPDiscover == 1
DHCPOffer == 2
DHCPRequest == 3
DHCPDecline == 4
DHCPAck == 5
DHCPNak == 6
DHCPRelease == 7
DHCPInform == 8

SubnetMaskOptionCode == 1
RouterOptionCode == 3
DomainNameServerOptionCode == 6
RequestIPAddressOptionCode == 50
IPAddressLeaseTimeOptionCode == 51
DHCPMessageTypeOptionCode == 53
ServerIdentifierOptionCode == 54
MessageOptionCode == 56

LeaseReserved == 0
LeaseInUse == 1

Sequential == 0
Randomized == 1

-----------------------------------------------------------------------------
(* The environment the pool is constructed in. *)

\* the pool entries of the configuration file, the CIDR string already parsed
\* (net.ParseCIDR) and the lifetime in clock units (time.ParseDuration).  Each
\* satisfies 1 <= Start <= End <= 2^hostBits - 2.  The first two are the
\* default pool 192.168.99.0/24 from Start = 2 with a shorter range (the
\* second with a lifetime of two ticker periods, so that a lease outlives a
\* tick), the third is a range in the upper half of the same network.
PoolConfigs ==
    { [Network |-> [IP |-> IPv4(192, 168, 99, 0), Mask |-> <<255, 255, 255, 0>>],
       Start |-> 2, End |-> 3, Algorithm |-> "sequential", Lifetime |-> 1],
      [Network |-> [IP |-> IPv4(192, 168, 99, 0), Mask |-> <<255, 255, 255, 0>>],
       Start |-> 2, End |-> 3, Algorithm |-> "random", Lifetime |-> 2],
      [Network |-> [IP |-> IPv4(192, 168, 99, 0), Mask |-> <<255, 255, 255, 0>>],
       Start |-> 200, End |-> 201, Algorithm |-> "sequential", Lifetime |-> 1] }

\* the interface the pool serves
Interfaces == {"vboxnet0"}

\* iface.Addrs(): an IPv6 link-local address first, then the IPv4 address
InterfaceAddrs(iface) ==
    << <<254, 128, 0, 0, 0, 0, 0, 0, 0, 0, 0, 0, 0, 0, 0, 1>>, IPv4(192, 168, 99, 1) >>

\* the hardware addresses of the clients
Macs == { <<1, 2, 3, 4, 5, 6>>, <<1, 2, 3, 4, 5, 7>>, <<1, 2, 3, 4, 5, 8>> }

NewPool(conf) ==
    [Leases    |-> [k \in {} |-> k],
     Network   |-> conf.Network,
     Start     |-> conf.Start,
     End       |-> conf.End,
     Algorithm |-> IF conf.Algorithm = "sequential" THEN Sequential ELSE Randomized,
     Lifetime  |-> conf.Lifetime]

-----------------------------------------------------------------------------
(* Helpers of the pool. *)

\* the map's keys
Keys == DOMAIN pool.Leases

newClientIdentifier(m) == [ID |-> <<>>, Mac |-> m.ClientHwAddr]

\* id.equals(other)
equals(id, other) ==
    IF Len(id.ID) > 0 THEN id.ID = other.ID ELSE id.Mac = other.Mac

RECURSIVE firstIPv4(_, _)
firstIPv4(addresses, i) ==
    IF i > Len(addresses) THEN IPv4(0, 0, 0, 0)
    ELSE IF To4(addresses[i]) # NilIP THEN To4(addresses[i])
    ELSE firstIPv4(addresses, i + 1)

\* pool.serverIP(iface): the first IPv4 address of the interface, else 0.0.0.0
serverIP(iface) == firstIPv4(InterfaceAddrs(iface), 1)

\* the mutant adds nothing of the index
addressFromIndex_NoIndex(index) ==
    Or32(Uint32OfIP(pool.Network.IP), U32(pool.Start))

addressFromIndex(index) ==
    LET mask == Uint32OfIP(pool.Network.IP)
        mask2 == Or32(mask, Add32(index, U32(pool.Start)))
    IN  IPv4(mask2[1], mask2[2], mask2[3], mask2[4])

\* [idx, err]: err is TRUE when an error is returned
indexFromAddress(ip) ==
    LET mask == Uint32OfIP(pool.Network.IP)
        ip4 == To4(ip)
    IN  IF ip4 = NilIP THEN [idx |-> U32(0), err |-> TRUE]
        ELSE [idx |-> Sub32(And32(Uint32OfIP(ip4), Not32(mask)), U32(pool.Start)),
              err |-> FALSE]

\* the mutant takes the last index, whatever the algorithm
selectNumber_Last(algo, indices) == {indices[Len(indices)]}

\* the values selectNumber can return: rand.Intn is any position
selectNumber(algo, indices) ==
    IF algo = Sequential THEN {indices[1]}
    ELSE IF algo = Randomized THEN {indices[i] : i \in 1..Len(indices)}
    ELSE {U32(0)}

RECURSIVE freeFrom(_)
freeFrom(i) ==
    IF i > pool.End THEN <<>>
    ELSE IF U32(i) \notin Keys THEN <<U32(i)>> \o freeFrom(i + 1)
    ELSE freeFrom(i + 1)

\* the mutant's loop runs one index past End
freeIndices_Beyond == freeFrom(pool.Start) \o <<U32(pool.End + 1)>>

\* the indices of [Start, End] without a lease, ascending
freeIndices == freeFrom(pool.Start)

\* the mutant never finds the client's lease
findClientLease_Never(id) == {}

\* the keys a range over the map can stop at: every lease of the client
findClientLease(id) == {k \in Keys : equals(pool.Leases[k].ID, id)}

\* the mutant frees nothing
freeLeases_None(id) == pool.Leases

\* the mutant frees every lease of the pool
freeLeases_All(id) == [k \in {} |-> k]

\* the map after freeLeases(id)
freeLeases(id) ==
    [k \in {j \in Keys : ~equals(pool.Leases[j].ID, id)} |-> pool.Leases[k]]

\* the lines freeLeases(id) prints
freeLeasesLog(id) ==
    {[text |-> "Freeing", ip |-> pool.Leases[k].Address] :
        k \in {j \in Keys : equals(pool.Leases[j].ID, id)}}

\* the mutant takes the zero instant of a Reserved lease for "no expiry"
expireOld_ZeroKept(t) ==
    [k \in {j \in Keys : pool.Leases[j].Expires = 0 \/ ~(pool.Leases[j].Expires < t)}
        |-> pool.Leases[k]]

\* the mutant deletes the leases that have not expired
expireOld_Kept(t) ==
    [k \in {j \in Keys : pool.Leases[j].Expires < t} |-> pool.Leases[k]]

\* the map after expireOld() at instant t
expireOld(t) ==
    [k \in {j \in Keys : ~(pool.Leases[j].Expires < t)} |-> pool.Leases[k]]

\* the lines expireOld() prints
expireOldLog(t) ==
    {[text |-> "Expiration, freeing", ip |-> pool.Leases[k].Address] :
        k \in {j \in Keys : pool.Leases[j].Expires < t}}

-----------------------------------------------------------------------------
(* The wire codec.  A []byte is a sequence of octets; a Go string is the   *)
(* sequence of its octets; a time.Duration below 2^32 seconds is a record  *)
(* of its whole seconds, as a uint32, and the nanoseconds left over.       *)

\* the options map with option code set to value
SetOption(options, code, value) ==
    [c \in DOMAIN options \cup {code} |-> IF c = code THEN value ELSE options[c]]

PadOptionCode == 0
TimeOffsetOptionCode == 2
TimeServerOptionCode == 4
NameServerOptionCode == 5
HostNameOptionCode == 12
DomainNameOptionCode == 15
IPForwardingEnableOptionCode == 19
InterfaceMTUOptionCode == 26
StaticRouteOptionCode == 33
NTPServerOptionCode == 42
OptionOverloadOptionCode == 52
ParameterRequestListOptionCode == 55
MaximumDHCPMessageSizeOptionCode == 57
RenewalTimeValueOptionCode == 58
RebindingTimeValueOptionCode == 59
VendorClassIdentifierOptionCode == 60
ClientIdentifierOptionCode == 61
EndOptionCode == 255

\* 12 + 32 + 64 + 128
bootpHeaderSize == 236

\* 0x63825363, most significant octet first
dhcpMagicCookie == <<99, 130, 83, 99>>

\* the size of UDPReceiver's buffer
ReceiveBufferSize == 576

\* the period of the pool's ticker, in seconds
TickerSeconds == 10

\* a time.Duration of sec seconds (a uint32) and nsec nanoseconds
Duration(sec, nsec) == [sec |-> sec, nsec |-> nsec]

\* the time.Duration of a number of ticker periods
Periods(n) == Duration(U32(TickerSeconds * n), 0)

\* a uint16, most significant octet first
Be16(n) == <<n \div 256, n % 256>>

\* copy(dst[:n], src) into a zeroed array of n octets
CopyInto(src, n) == [i \in 1..n |-> IF i <= Len(src) THEN src[i] ELSE 0]

\* the mutant keeps the padding of the names
cstringToGo_Padded(bytes) == bytes

\* cstringToGo: the octets before the first NUL
cstringToGo(bytes) ==
    LET nuls == {i \in 1..Len(bytes) : bytes[i] = 0}
    IN  IF nuls = {} THEN bytes
        ELSE SubSeq(bytes, 1, (CHOOSE i \in nuls : \A j \in nuls : i <= j) - 1)

ipToArray(ip) == IF To4(ip) # NilIP THEN To4(ip) ELSE <<0, 0, 0, 0>>

\* the variant decodeOption picks for the code
Variant(code) ==
    IF code \in {SubnetMaskOptionCode, RouterOptionCode, TimeServerOptionCode,
                 NameServerOptionCode, DomainNameServerOptionCode, StaticRouteOptionCode,
                 NTPServerOptionCode, RequestIPAddressOptionCode,
                 ServerIdentifierOptionCode} THEN "IPDHCPOption"
    ELSE IF code \in {TimeOffsetOptionCode, IPAddressLeaseTimeOptionCode,
                      RenewalTimeValueOptionCode, RebindingTimeValueOptionCode}
    THEN "DurationDHCPOption"
    ELSE IF code \in {HostNameOptionCode, DomainNameOptionCode, MessageOptionCode,
                      VendorClassIdentifierOptionCode} THEN "StringDHCPOption"
    ELSE IF code \in {IPForwardingEnableOptionCode, OptionOverloadOptionCode,
                      DHCPMessageTypeOptionCode, ParameterRequestListOptionCode,
                      ClientIdentifierOptionCode} THEN "Uint8DHCPOption"
    ELSE IF code \in {InterfaceMTUOptionCode, MaximumDHCPMessageSizeOptionCode}
    THEN "Uint16DHCPOption"
    ELSE "none"

\* opt.Decode(data) for an option of the variant: [ok, value]
OptionDecode(variant, data) ==
    IF variant = "IPDHCPOption"
    THEN IF Len(data) % 4 # 0 THEN [ok |-> FALSE, value |-> <<>>]
         ELSE [ok |-> TRUE,
               value |-> [i \in 1..(Len(data) \div 4) |->
                             IPv4(data[4 * i - 3], data[4 * i - 2],
                                  data[4 * i - 1], data[4 * i])]]
    ELSE IF variant = "Uint16DHCPOption"
    THEN IF Len(data) % 2 # 0 THEN [ok |-> FALSE, value |-> <<>>]
         ELSE [ok |-> TRUE,
               value |-> [i \in 1..(Len(data) \div 2) |->
                             256 * data[2 * i - 1] + data[2 * i]]]
    ELSE IF variant = "DurationDHCPOption"
    THEN IF Len(data) # 4 THEN [ok |-> FALSE, value |-> <<>>]
         ELSE [ok |-> TRUE,
               value |-> Duration(<<data[1], data[2], data[3], data[4]>>, 0)]
    ELSE [ok |-> TRUE, value |-> data]

\* IPDHCPOption.Encode panics ("IPv6?") on an address that is not IPv4
OptionEncodePanics(variant, value) ==
    IF variant = "IPDHCPOption"
    THEN \E i \in 1..Len(value) : To4(value[i]) = NilIP
    ELSE FALSE

RECURSIVE Concat(_, _)
Concat(seqs, i) == IF i > Len(seqs) THEN <<>> ELSE seqs[i] \o Concat(seqs, i + 1)

\* opt.Encode() for an option of the variant
OptionEncode(variant, value) ==
    IF variant = "IPDHCPOption"
    THEN Concat([i \in 1..Len(value) |-> To4(value[i])], 1)
    ELSE IF variant = "Uint16DHCPOption"
    THEN Concat([i \in 1..Len(value) |-> Be16(value[i])], 1)
    ELSE IF variant = "DurationDHCPOption"
    THEN value.sec
    ELSE value

\* decodeOption: [err, found, value]; found is FALSE for a code without variant
decodeOption(code, data) ==
    IF Variant(code) = "none" THEN [err |-> FALSE, found |-> FALSE, value |-> <<>>]
    ELSE LET opt == OptionDecode(Variant(code), data)
         IN  [err |-> ~opt.ok, found |-> opt.ok, value |-> opt.value]

\* the result of a decoder: kind is "ok", "error" (an error is returned) or
\* "panic" (index out of range)
Decoded(kind, options) == [kind |-> kind, options |-> options]

\* the empty (or nil) options map
NoOptions == [c \in {} |-> <<>>]

\* the loop of DecodeDHCPOptions from position i (counted from 1) on; a run
\* of PAD octets is passed over in one step
RECURSIVE DecodeFrom(_, _, _)
DecodeFrom(data, i, output) ==
    IF i > Len(data) THEN Decoded("error", NoOptions)
    ELSE IF data[i] = PadOptionCode
    THEN LET rest == {j \in i..Len(data) : data[j] # PadOptionCode}
         IN  IF rest = {} THEN Decoded("error", NoOptions)
             ELSE DecodeFrom(data, CHOOSE j \in rest : \A k \in rest : j <= k, output)
    ELSE IF data[i] = EndOptionCode THEN Decoded("ok", output)
    ELSE IF i + 1 > Len(data) THEN Decoded("panic", NoOptions)
    ELSE IF data[i + 1] > Len(data) - i - 1 THEN Decoded("error", NoOptions)
    ELSE LET length == data[i + 1]
             option == decodeOption(data[i], SubSeq(data, i + 2, i + 1 + length))
         IN  IF option.err THEN Decoded("error", NoOptions)
             ELSE DecodeFrom(data, i + length + 2,
                             IF option.found
                             THEN SetOption(output, data[i], option.value)
                             ELSE output)

DecodeDHCPOptions(data) == DecodeFrom(data, 1, NoOptions)

\* the loop of DHCPOptions.Encode over the codes in the order the map
\* iteration yields them: [kind, bytes], kind "ok", "error" or "panic"
RECURSIVE EncodeFrom(_, _, _, _)
EncodeFrom(options, order, i, buffer) ==
    IF i > Len(order) THEN [kind |-> "ok", bytes |-> buffer \o <<EndOptionCode>>]
    ELSE IF order[i] \in {EndOptionCode, PadOptionCode}
    THEN EncodeFrom(options, order, i + 1, buffer)
    ELSE IF OptionEncodePanics(Variant(order[i]), options[order[i]])
    THEN [kind |-> "panic", bytes |-> <<>>]
    ELSE LET data == OptionEncode(Variant(order[i]), options[order[i]])
         IN  IF Len(data) > 255 THEN [kind |-> "error", bytes |-> <<>>]
             ELSE EncodeFrom(options, order, i + 1,
                             buffer \o <<order[i], Len(data)>> \o data)

\* options.Encode(), the map iterated in the given order
Encode(options, order) == EncodeFrom(options, order, 1, <<>>)

\* the orders in which the iteration of a map can yield its codes
Orders(options) ==
    {order \in [1..Cardinality(DOMAIN options) -> DOMAIN options] :
        \A i, j \in DOMAIN order : order[i] = order[j] => i = j}

\* bootp.raw(): the rawBootpHeader
raw(bootp) ==
    [Op            |-> bootp.BootpOperation % 256,
     HwAddrType    |-> bootp.HwAddrType % 256,
     HwAddrLength  |-> Len(bootp.ClientHwAddr) % 256,
     Hops          |-> bootp.Hops,
     TransactionID |-> bootp.TransactionID,
     Seconds       |-> 256 * bootp.Seconds.sec[3] + bootp.Seconds.sec[4],
     Flags         |-> bootp.Flags % 65536,
     ClientIP      |-> ipToArray(bootp.ClientIP),
     YourIP        |-> ipToArray(bootp.YourIP),
     ServerIP      |-> ipToArray(bootp.ServerIP),
     RelayAgentIP  |-> ipToArray(bootp.RelayAgentIP),
     ClientHwAddr  |-> CopyInto(bootp.ClientHwAddr, 16),
     ServerName    |-> CopyInto(bootp.ServerName, 64),
     FileName      |-> CopyInto(bootp.FileName, 128)]

\* binary.Write(buffer, binary.BigEndian, header)
WriteHeader(header) ==
    <<header.Op, header.HwAddrType, header.HwAddrLength, header.Hops>>
    \o header.TransactionID \o Be16(header.Seconds) \o Be16(header.Flags)
    \o header.ClientIP \o header.YourIP \o header.ServerIP \o header.RelayAgentIP
    \o header.ClientHwAddr \o header.ServerName \o header.FileName

\* binary.Read(reader, binary.BigEndian, &header) on at least 236 octets
ReadHeader(data) ==
    [Op            |-> data[1],
     HwAddrType    |-> data[2],
     HwAddrLength  |-> data[3],
     Hops          |-> data[4],
     TransactionID |-> SubSeq(data, 5, 8),
     Seconds       |-> 256 * data[9] + data[10],
     Flags         |-> 256 * data[11] + data[12],
     ClientIP      |-> SubSeq(data, 13, 16),
     YourIP        |-> SubSeq(data, 17, 20),
     ServerIP      |-> SubSeq(data, 21, 24),
     RelayAgentIP  |-> SubSeq(data, 25, 28),
     ClientHwAddr  |-> SubSeq(data, 29, 44),
     ServerName    |-> SubSeq(data, 45, 108),
     FileName      |-> SubSeq(data, 109, 236)]

\* the zero value of DHCPMessage
ZeroMessage ==
    [BootpOperation |-> 0,
     HwAddrType     |-> 0,
     Hops           |-> 0,
     TransactionID  |-> <<0, 0, 0, 0>>,
     Seconds        |-> Duration(U32(0), 0),
     Flags          |-> 0,
     ClientIP       |-> NilIP,
     YourIP         |-> NilIP,
     ServerIP       |-> NilIP,
     RelayAgentIP   |-> NilIP,
     ClientHwAddr   |-> <<>>,
     ServerName     |-> <<>>,
     FileName       |-> <<>>,
     Options        |-> NoOptions]

\* header.transform(): [err, bootp]; the hardware address is left empty when
\* an error is returned
transform(header) ==
    LET bootp == [ZeroMessage EXCEPT
                    !.BootpOperation = header.Op,
                    !.HwAddrType = header.HwAddrType,
                    !.Hops = header.Hops,
                    !.TransactionID = header.TransactionID,
                    !.Seconds = Duration(U32(header.Seconds), 0),
                    !.Flags = header.Flags,
                    !.ClientIP = IPv4(header.ClientIP[1], header.ClientIP[2],
                                      header.ClientIP[3], header.ClientIP[4]),
                    !.YourIP = IPv4(header.YourIP[1], header.YourIP[2],
                                    header.YourIP[3], header.YourIP[4]),
                    !.ServerIP = IPv4(header.ServerIP[1], header.ServerIP[2],
                                      header.ServerIP[3], header.ServerIP[4]),
                    !.RelayAgentIP = IPv4(header.RelayAgentIP[1], header.RelayAgentIP[2],
                                          header.RelayAgentIP[3], header.RelayAgentIP[4]),
                    !.ServerName = cstringToGo(header.ServerName),
                    !.FileName = cstringToGo(header.FileName)]
    IN  IF header.Op # BootRequest /\ header.Op # BootReply
        THEN [err |-> TRUE, bootp |-> bootp]
        ELSE IF header.HwAddrLength <= 0 \/ header.HwAddrLength > 16
        THEN [err |-> TRUE, bootp |-> bootp]
        ELSE [err |-> FALSE,
              bootp |-> [bootp EXCEPT !.ClientHwAddr =
                            SubSeq(header.ClientHwAddr, 1, header.HwAddrLength)]]

\* UnmarshallDHCPMessage(msg): [kind, msg], kind "ok", "error" (the message
\* returned with the error is the zero value, or the header alone when the
\* header is what is wrong) or "panic" (of DecodeDHCPOptions)
UnmarshallDHCPMessage(data) ==
    IF Len(data) < bootpHeaderSize THEN [kind |-> "error", msg |-> ZeroMessage]
    ELSE IF Len(data) < bootpHeaderSize + 4 THEN [kind |-> "error", msg |-> ZeroMessage]
    ELSE IF SubSeq(data, bootpHeaderSize + 1, bootpHeaderSize + 4) # dhcpMagicCookie
    THEN [kind |-> "error", msg |-> ZeroMessage]
    ELSE LET decoded == DecodeDHCPOptions(SubSeq(data, bootpHeaderSize + 5, Len(data)))
             header == transform(ReadHeader(data))
         IN  IF decoded.kind # "ok" THEN [kind |-> decoded.kind, msg |-> ZeroMessage]
             ELSE IF header.err THEN [kind |-> "error", msg |-> header.bootp]
             ELSE [kind |-> "ok",
                   msg |-> [header.bootp EXCEPT !.Options = decoded.options]]

\* MarshallDHCPMessage(msg), the options iterated in the given order:
\* [kind, bytes]; on an error of Encode it returns nil octets and a nil error,
\* which is kind "ok" with no octets
MarshallDHCPMessage(m, order) ==
    LET opt == Encode(m.Options, order)
    IN  IF opt.kind = "panic" THEN [kind |-> "panic", bytes |-> <<>>]
        ELSE IF opt.kind = "error" THEN [kind |-> "ok", bytes |-> <<>>]
        ELSE [kind |-> "ok",
              bytes |-> WriteHeader(raw(m)) \o dhcpMagicCookie \o opt.bytes]

-----------------------------------------------------------------------------
(* Messages. *)

\* the options map of a message whose only option is 53, with payload t
TypeOption(t) == [c \in {DHCPMessageTypeOptionCode} |-> t]

\* a DirectedDHCPMessage as UDPReceiver builds it from a decoded datagram
Directed(op, htype, mac, ciaddr, siaddr, options) ==
    [Message |-> [BootpOperation |-> op,
                  HwAddrType     |-> htype,
                  Hops           |-> 0,
                  TransactionID  |-> <<222, 173, 190, 239>>,
                  Seconds        |-> Duration(U32(0), 0),
                  Flags          |-> BootpBroadcast,
                  ClientIP       |-> ciaddr,
                  YourIP         |-> IPv4zero,
                  ServerIP       |-> siaddr,
                  RelayAgentIP   |-> IPv4zero,
                  ClientHwAddr   |-> mac,
                  ServerName     |-> <<>>,
                  FileName       |-> <<>>,
                  Options        |-> options],
     Interface |-> "vboxnet0",
     Remote    |-> "0.0.0.0:68"]

\* this server's address on the interface, and the address of another server
ThisServer == IPv4(192, 168, 99, 1)
OtherServer == IPv4(192, 168, 99, 250)

\* the addresses the clients ask for: with s = Start and n the network, the
\* hosts n.2s and n.2s+1 (modulo 256), and 0.0.0.2s outside the network
RequestIPs ==
    LET n == pool.Network.IP
        s == pool.Start
    IN  {IPv4(n[1], n[2], n[3], h) : h \in {(2 * s) % 256, (2 * s + 1) % 256}}
            \cup {IPv4(0, 0, 0, (2 * s) % 256)}

\* the nonzero ciaddr of a renewing client
RenewIP == IPv4(pool.Network.IP[1], pool.Network.IP[2], pool.Network.IP[3],
                (2 * pool.Start) % 256)

Discovers ==
    {Directed(BootRequest, BootpEthernet, mac, IPv4zero, IPv4zero,
              TypeOption(<<DHCPDiscover>>)) : mac \in Macs}

\* the option maps of a REQUEST: option 50 absent or one address, option 54
\* absent, this server or another server
RequestOptions ==
    LET base == TypeOption(<<DHCPRequest>>)
        with50 == {base} \cup
                  {SetOption(base, RequestIPAddressOptionCode, <<ip>>) : ip \in RequestIPs}
    IN  with50 \cup
        {SetOption(o, ServerIdentifierOptionCode, <<sid>>) :
            o \in with50, sid \in {ThisServer, OtherServer}}

\* a REQUEST with option 50 has ciaddr zero (SELECTING, INIT-REBOOT); one
\* without has ciaddr zero or the client's address (RENEWING, REBINDING)
Requests ==
    {dm \in {Directed(BootRequest, BootpEthernet, mac, ciaddr, IPv4zero, options) :
                mac \in Macs, ciaddr \in {IPv4zero, RenewIP}, options \in RequestOptions} :
        RequestIPAddressOptionCode \in DOMAIN dm.Message.Options
            => dm.Message.ClientIP = IPv4zero}

Releases ==
    {Directed(BootRequest, BootpEthernet, mac, RenewIP, siaddr,
              SetOption(TypeOption(<<DHCPRelease>>),
                        ServerIdentifierOptionCode, <<ThisServer>>)) :
        mac \in Macs, siaddr \in {ThisServer, OtherServer}}

\* DECLINE, INFORM, and the types the switch has no case for
Others ==
    {Directed(BootRequest, BootpEthernet, <<1, 2, 3, 4, 5, 6>>, IPv4zero, IPv4zero,
              TypeOption(<<t>>)) :
        t \in {DHCPDecline, DHCPInform, DHCPUnknown, DHCPOffer, 9}}

\* messages basicValidation refuses
Invalids ==
    {Directed(BootReply, BootpEthernet, <<1, 2, 3, 4, 5, 6>>, IPv4zero, IPv4zero,
              TypeOption(<<DHCPDiscover>>)),
     Directed(BootRequest, 6, <<1, 2, 3, 4, 5, 6>>, IPv4zero, IPv4zero,
              TypeOption(<<DHCPDiscover>>))}

\* messages the decoder accepts whose option 53, 50 or 54 has no first element
Malformed ==
    {Directed(BootRequest, BootpEthernet, <<1, 2, 3, 4, 5, 6>>, IPv4zero, IPv4zero,
              [c \in {} |-> <<>>]),
     Directed(BootRequest, BootpEthernet, <<1, 2, 3, 4, 5, 6>>, IPv4zero, IPv4zero,
              TypeOption(<<>>)),
     Directed(BootRequest, BootpEthernet, <<1, 2, 3, 4, 5, 6>>, IPv4zero, IPv4zero,
              SetOption(TypeOption(<<DHCPRequest>>), RequestIPAddressOptionCode, <<>>)),
     Directed(BootRequest, BootpEthernet, <<1, 2, 3, 4, 5, 6>>, IPv4zero, IPv4zero,
              SetOption(TypeOption(<<DHCPRequest>>), ServerIdentifierOptionCode, <<>>))}

\* opt.Data().([]uint8)[0] panics: option 53 is absent (a nil interface) or empty
TypePanics(m) ==
    IF DHCPMessageTypeOptionCode \notin DOMAIN m.Options THEN TRUE
    ELSE Len(m.Options[DHCPMessageTypeOptionCode]) = 0

\* msg.Type(), when it does not panic
Type(m) ==
    LET t == m.Options[DHCPMessageTypeOptionCode][1]
    IN  IF t > DHCPInform \/ t = 0 THEN DHCPUnknown ELSE t

\* TRUE when basicValidation returns an error
basicValidation(m) ==
    IF m.BootpOperation # BootRequest THEN TRUE
    ELSE m.HwAddrType # BootpEthernet

\* opt.Data().([]net.IP)[0] panics: the option is present and empty
FirstIPPanics(m, code) == code \in DOMAIN m.Options /\ Len(m.Options[code]) = 0

\* msg.RequestedIP(), when it does not panic
RequestedIP(m) ==
    IF RequestIPAddressOptionCode \notin DOMAIN m.Options THEN NilIP
    ELSE m.Options[RequestIPAddressOptionCode][1]

\* msg.ServerIdentifier(), when it does not panic
ServerIdentifier(m) ==
    IF ServerIdentifierOptionCode \notin DOMAIN m.Options THEN NilIP
    ELSE m.Options[ServerIdentifierOptionCode][1]

BuildBasicReply(request, sIP) ==
    [BootpOperation |-> BootReply,
     HwAddrType     |-> request.HwAddrType,
     Hops           |-> request.Hops,
     TransactionID  |-> request.TransactionID,
     Seconds        |-> request.Seconds,
     Flags          |-> BootpBroadcast,
     ClientIP       |-> IPv4zero,
     YourIP         |-> IPv4zero,
     ServerIP       |-> sIP,
     RelayAgentIP   |-> IPv4zero,
     ClientHwAddr   |-> request.ClientHwAddr,
     ServerName     |-> <<>>,
     FileName       |-> <<>>,
     Options        |-> [c \in {ServerIdentifierOptionCode} |-> <<sIP>>]]

\* the parameters an OFFER and an ACK carry, with option 53 = t
Envelope(reply, t, sIP) ==
    SetOption(SetOption(SetOption(SetOption(SetOption(reply.Options,
        DHCPMessageTypeOptionCode, <<t>>),
        SubnetMaskOptionCode, <<pool.Network.Mask>>),
        RouterOptionCode, <<sIP>>),
        DomainNameServerOptionCode, <<sIP>>),
        IPAddressLeaseTimeOptionCode, Periods(pool.Lifetime))

\* the DirectedDHCPMessage a handler sends in reply to dm
ReplyTo(dm, reply) ==
    [Message |-> reply, Interface |-> dm.Interface, Remote |-> dm.Remote]

-----------------------------------------------------------------------------
(* The pool actor: one step of Pool.Run's select, with the handler it calls. *)

\* the value of run once something other than a DISCOVER of a new client was handled
Broken == << <<>> >>

\* a line without an address
Line(text) == [text |-> text, ip |-> NilIP]

\* pool.Leases[idx] = lease
SetLease(idx, lease) ==
    [k \in Keys \cup {idx} |-> IF k = idx THEN lease ELSE pool.Leases[k]]

\* the message branch of the select took dm
Received(dm) ==
    /\ alive
    /\ msg' = <<dm>>
    /\ UNCHANGED now

\* Type() returned and basicValidation accepted the message, of type t
Accepted(dm, t) ==
    /\ ~TypePanics(dm.Message)
    /\ ~basicValidation(dm.Message)
    /\ Type(dm.Message) = t

\* case <-ticker.C: one more ticker period has passed
Tick ==
    /\ alive
    /\ now < MaxNow
    /\ now' = now + 1
    /\ msg' = <<>>
    /\ pool' = [pool EXCEPT !.Leases = expireOld(now + 1)]
    /\ out' = <<>>
    /\ log' = expireOldLog(now + 1)
    /\ run' = Broken
    /\ UNCHANGED alive

\* Type(), RequestedIP() or ServerIdentifier() indexes an absent or empty
\* option: the goroutine panics and the process ends
Panic(dm) ==
    /\ Received(dm)
    /\ \/ TypePanics(dm.Message)
       \/ /\ Accepted(dm, DHCPRequest)
          /\ \/ FirstIPPanics(dm.Message, ServerIdentifierOptionCode)
             \/ FirstIPPanics(dm.Message, RequestIPAddressOptionCode)
    /\ alive' = FALSE
    /\ out' = <<>>
    /\ log' = {}
    /\ run' = Broken
    /\ UNCHANGED pool

\* basicValidation returns an error: the message is dropped
Invalid(dm) ==
    /\ Received(dm)
    /\ ~TypePanics(dm.Message)
    /\ basicValidation(dm.Message)
    /\ out' = <<>>
    /\ log' = {Line("Error while validating DHCP message")}
    /\ run' = Broken
    /\ UNCHANGED <<pool, alive>>

\* the OFFER for the lease at address
Offer(dm, sIP, address) ==
    LET offer == BuildBasicReply(dm.Message, sIP)
    IN  ReplyTo(dm, [offer EXCEPT !.YourIP = address,
                                  !.Options = Envelope(offer, DHCPOffer, sIP)])

handleDiscover(dm) ==
    /\ Received(dm)
    /\ Accepted(dm, DHCPDiscover)
    /\ \E clientID \in {newClientIdentifier(dm.Message)},
          sIP \in {serverIP(dm.Interface)} :
       \E found \in {findClientLease(clientID)} :
           IF found # {}
           THEN \E k \in found :
                   /\ out' = <<Offer(dm, sIP, pool.Leases[k].Address)>>
                   /\ log' = {Line("Sending offer")}
                   /\ UNCHANGED pool
           ELSE \E free \in {freeIndices} :
                IF Len(free) = 0
                THEN /\ out' = <<>>
                     /\ log' = {Line("No addresses free, aborting!")}
                     /\ UNCHANGED pool
                ELSE \E idx \in selectNumber(pool.Algorithm, free) :
                     \E lease \in {[Address |-> addressFromIndex(idx),
                                     ID      |-> clientID,
                                     State   |-> LeaseReserved,
                                     Expires |-> 0]} :
                        /\ pool' = [pool EXCEPT !.Leases = SetLease(idx, lease)]
                        /\ out' = <<Offer(dm, sIP, lease.Address)>>
                        /\ log' = {[text |-> "Lease reserved", ip |-> lease.Address],
                                   Line("Sending offer")}
    /\ run' = IF run # Broken /\ \A i \in 1..Len(run) : run[i] # dm.Message.ClientHwAddr
              THEN Append(run, dm.Message.ClientHwAddr)
              ELSE Broken
    /\ UNCHANGED alive

\* the octets of the reasons sendNack is called with (a Go string is its octets)
Octets(reason) ==
    IF reason = "Invalid address"
    THEN <<73, 110, 118, 97, 108, 105, 100, 32, 97, 100, 100, 114, 101, 115, 115>>
    ELSE IF reason = "No lease found"
    THEN <<78, 111, 32, 108, 101, 97, 115, 101, 32, 102, 111, 117, 110, 100>>
    ELSE \* "Requested IP address is leased by different client"
         <<82, 101, 113, 117, 101, 115, 116, 101, 100, 32, 73, 80, 32, 97,
         100, 100, 114, 101, 115, 115, 32, 105, 115, 32, 108, 101, 97, 115,
         101, 100, 32, 98, 121, 32, 100, 105, 102, 102, 101, 114, 101, 110,
         116, 32, 99, 108, 105, 101, 110, 116>>

\* the NAK sendNack sends, with the reason as option 56
Nack(dm, sIP, reason) ==
    LET nak == BuildBasicReply(dm.Message, sIP)
    IN  ReplyTo(dm, [nak EXCEPT !.Options =
            SetOption(SetOption(nak.Options, DHCPMessageTypeOptionCode, <<DHCPNak>>),
                      MessageOptionCode, Octets(reason))])

\* the mutant never sends the NAK
sendNack_Silent(dm, selectedServer, sIP, reason) == <<>>

\* what sendNack sends when the REQUEST carried option 54, nothing otherwise
sendNack(dm, selectedServer, sIP, reason) ==
    IF selectedServer # NilIP THEN <<Nack(dm, sIP, reason)>> ELSE <<>>

\* the ACK for the lease at address
Ack(dm, sIP, address) ==
    LET ack == BuildBasicReply(dm.Message, sIP)
    IN  ReplyTo(dm, [ack EXCEPT !.YourIP = address,
                                !.Options = Envelope(ack, DHCPAck, sIP)])

handleRequest(dm) ==
    /\ Received(dm)
    /\ Accepted(dm, DHCPRequest)
    /\ ~FirstIPPanics(dm.Message, ServerIdentifierOptionCode)
    /\ ~FirstIPPanics(dm.Message, RequestIPAddressOptionCode)
    /\ \E clientID \in {newClientIdentifier(dm.Message)},
          sIP \in {serverIP(dm.Interface)},
          selectedServer \in {ServerIdentifier(dm.Message)},
          option50 \in {RequestedIP(dm.Message)} :
       \E requestedIP \in {IF option50 = NilIP THEN dm.Message.ClientIP ELSE option50} :
       \E found \in {indexFromAddress(requestedIP)} :
           IF option50 = NilIP /\ IPEqual(dm.Message.ClientIP, IPv4zero)
           THEN /\ out' = <<>>
                /\ log' = {Line("DHCPRequest bez IP")}
                /\ UNCHANGED pool
           ELSE IF selectedServer # NilIP /\ ~IPEqual(sIP, selectedServer)
           THEN /\ pool' = [pool EXCEPT !.Leases = freeLeases(clientID)]
                /\ out' = <<>>
                /\ log' = {Line("Server IP not equal, clearing client leases")}
                              \cup freeLeasesLog(clientID)
           ELSE IF found.err
           THEN /\ out' = sendNack(dm, selectedServer, sIP, "Invalid address")
                /\ log' = {Line("Invalid address")}
                /\ UNCHANGED pool
           ELSE IF found.idx \notin Keys
           THEN /\ out' = sendNack(dm, selectedServer, sIP, "No lease found")
                /\ log' = {Line("No lease found")}
                /\ UNCHANGED pool
           ELSE IF ~equals(pool.Leases[found.idx].ID, clientID)
           THEN /\ out' = sendNack(dm, selectedServer, sIP,
                                   "Requested IP address is leased by different client")
                /\ log' = {Line("Requested IP address is leased by different client")}
                /\ UNCHANGED pool
           ELSE /\ pool' = [pool EXCEPT !.Leases =
                               SetLease(found.idx, [pool.Leases[found.idx] EXCEPT
                                                       !.State = LeaseInUse,
                                                       !.Expires = now + pool.Lifetime])]
                /\ out' = <<Ack(dm, sIP, pool.Leases[found.idx].Address)>>
                /\ log' = {Line("Sending ACK")}
    /\ run' = Broken
    /\ UNCHANGED alive

\* the mutant frees the leases of the client that declines
handleDecline_Frees(dm) ==
    /\ Received(dm)
    /\ Accepted(dm, DHCPDecline)
    /\ pool' = [pool EXCEPT !.Leases = freeLeases(newClientIdentifier(dm.Message))]
    /\ out' = <<>>
    /\ log' = {Line("Handling DHCPDecline")}
    /\ run' = Broken
    /\ UNCHANGED alive

\* handleDecline has no body
handleDecline(dm) ==
    /\ Received(dm)
    /\ Accepted(dm, DHCPDecline)
    /\ out' = <<>>
    /\ log' = {Line("Handling DHCPDecline")}
    /\ run' = Broken
    /\ UNCHANGED <<pool, alive>>

handleRelease(dm) ==
    /\ Received(dm)
    /\ Accepted(dm, DHCPRelease)
    /\ LET clientID == newClientIdentifier(dm.Message)
           sIP == serverIP(dm.Interface)
       IN  IF IPEqual(dm.Message.ServerIP, sIP)
           THEN /\ pool' = [pool EXCEPT !.Leases = freeLeases(clientID)]
                /\ log' = {Line("Handling DHCPRelease")} \cup freeLeasesLog(clientID)
           ELSE /\ log' = {Line("Handling DHCPRelease")}
                /\ UNCHANGED pool
    /\ out' = <<>>
    /\ run' = Broken
    /\ UNCHANGED alive

handleInform(dm) ==
    /\ Received(dm)
    /\ Accepted(dm, DHCPInform)
    /\ out' = <<>>
    /\ log' = {Line("Handling DHCPInform")}
    /\ run' = Broken
    /\ UNCHANGED <<pool, alive>>

\* the default case of the switch: DHCPUnknown, and OFFER, ACK and NAK
UnknownType(dm) ==
    /\ Received(dm)
    /\ ~TypePanics(dm.Message)
    /\ ~basicValidation(dm.Message)
    /\ Type(dm.Message) \in {DHCPUnknown, DHCPOffer, DHCPAck, DHCPNak}
    /\ out' = <<>>
    /\ log' = {Line("Unknown DHCP message type")}
    /\ run' = Broken
    /\ UNCHANGED <<pool, alive>>

\* no call has been made
NoCall == [op |-> "none", arg |-> <<>>, res |-> <<>>]

\* make(chan DirectedDHCPMessage, 10)
ChannelSize == 10
NewChannel == [q |-> <<>>, closed |-> FALSE]

\* the state when main enters its loop: the pool constructed, the channels
\* made and empty, the receiver, the pool and the sender started
Init ==
    /\ \E conf \in PoolConfigs : pool = NewPool(conf)
    /\ now = 1
    /\ msg = <<>>
    /\ out = <<>>
    /\ log = {}
    /\ alive = TRUE
    /\ run = <<>>
    /\ calc = NoCall
    /\ receiver = NewChannel
    /\ inbox = NewChannel
    /\ sender = NewChannel
    /\ wire = <<>>
    /\ task = [main |-> "loop", receiver |-> "run", pool |-> "run",
               sender |-> "run", panic |-> FALSE]
    /\ seen = [arrived |-> 0, produced |-> 0, handled |-> <<>>]

\* the variables of the tasks around the pool
server == <<receiver, inbox, sender, wire, task, seen>>

\* the pool actor on its own: nothing else runs
PoolOnly == UNCHANGED <<calc, server>>

Next ==
    \/ Tick /\ PoolOnly
    \/ \E dm \in Malformed : Panic(dm) /\ PoolOnly
    \/ \E dm \in Invalids : Invalid(dm) /\ PoolOnly
    \/ \E dm \in Discovers : handleDiscover(dm) /\ PoolOnly
    \/ \E dm \in Requests : handleRequest(dm) /\ PoolOnly
    \/ \E dm \in Others : handleDecline(dm) /\ PoolOnly
    \/ \E dm \in Releases : handleRelease(dm) /\ PoolOnly
    \/ \E dm \in Others : handleInform(dm) /\ PoolOnly
    \/ \E dm \in Others : UnknownType(dm) /\ PoolOnly

Spec == Init /\ [][Next]_vars

-----------------------------------------------------------------------------
(* The functions of the codec and of the pool called on their own: one     *)
(* call, on an argument of a bounded set, from the initial state.          *)

\* the number of whole options before the tail of an options area
MaxChunks == 2

\* whole pieces of an options area, with the code and the value the option
\* table gives them (code 0: the piece leaves no entry): PAD, END, options
\* of each variant, and options of codes the table does not have
SoundChunks ==
    { [bytes |-> <<0>>, code |-> 0, value |-> <<>>],
      [bytes |-> <<255>>, code |-> 0, value |-> <<>>],
      [bytes |-> <<53, 1, 3>>, code |-> 53, value |-> <<3>>],
      [bytes |-> <<50, 4, 192, 168, 99, 4>>, code |-> 50,
       value |-> <<IPv4(192, 168, 99, 4)>>],
      [bytes |-> <<6, 8, 10, 0, 0, 1, 10, 0, 0, 2>>, code |-> 6,
       value |-> <<IPv4(10, 0, 0, 1), IPv4(10, 0, 0, 2)>>],
      [bytes |-> <<51, 4, 0, 1, 81, 128>>, code |-> 51,
       value |-> Duration(<<0, 1, 81, 128>>, 0)],
      [bytes |-> <<26, 2, 5, 220>>, code |-> 26, value |-> <<1500>>],
      [bytes |-> <<12, 2, 104, 105>>, code |-> 12, value |-> <<104, 105>>],
      [bytes |-> <<99, 2, 255, 0>>, code |-> 0, value |-> <<>>],
      [bytes |-> <<99, 0>>, code |-> 0, value |-> <<>>] }

\* options of known codes whose payload length breaks the rule of the variant
UnsoundChunks ==
    { [bytes |-> <<53, 0>>, code |-> 53, value |-> <<>>],
      [bytes |-> <<53, 2, 1, 2>>, code |-> 53, value |-> <<>>],
      [bytes |-> <<50, 0>>, code |-> 50, value |-> <<>>],
      [bytes |-> <<54, 0>>, code |-> 54, value |-> <<>>],
      [bytes |-> <<50, 3, 192, 168, 99>>, code |-> 50, value |-> <<>>],
      [bytes |-> <<51, 3, 0, 1, 81>>, code |-> 51, value |-> <<>>],
      [bytes |-> <<51, 0>>, code |-> 51, value |-> <<>>],
      [bytes |-> <<26, 1, 5>>, code |-> 26, value |-> <<>>],
      [bytes |-> <<26, 0>>, code |-> 26, value |-> <<>>] }

\* the ends of an options area: nothing, END, a code without its length
\* octet, a length beyond the octets left
Tails == { <<>>, <<255>>, <<53>>, <<50, 4, 192, 168>>, <<99, 1>> }

\* the options areas: up to MaxChunks whole pieces and a tail
OptionAreas ==
    {[whole |-> w, tail |-> t] :
        w \in UNION {[1..n -> SoundChunks \cup UnsoundChunks] : n \in 0..MaxChunks},
        t \in Tails}

\* the octets of an options area
AreaBytes(area) ==
    Concat([i \in 1..Len(area.whole) |-> area.whole[i].bytes], 1) \o area.tail

\* a call leaves the pool actor as it is
CallOnly == UNCHANGED <<pool, now, msg, out, log, alive, run, server>>

\* DecodeDHCPOptions(data) on the octets of an options area
CallDecodeDHCPOptions(area) ==
    /\ calc = NoCall
    /\ calc' = [op |-> "DecodeDHCPOptions", arg |-> area,
                res |-> DecodeDHCPOptions(AreaBytes(area))]
    /\ CallOnly

\* pool.indexFromAddress(pool.addressFromIndex(index))
CallIndexFromAddress(index) ==
    /\ calc = NoCall
    /\ calc' = [op |-> "indexFromAddress", arg |-> index,
                res |-> indexFromAddress(addressFromIndex(index))]
    /\ CallOnly

\* n octets b
Fill(b, n) == [i \in 1..n |-> b]

\* the longest payload an option can have on the wire
MaxPayload == 255

\* headers of messages to marshal: well-formed ones (a request with empty
\* names, a reply with full names, the largest seconds and a server address
\* in the 16-byte form, a one-octet hardware address) and ones that are not
\* (operation 3, no hardware address or 17 octets of it, a NUL inside sname,
\* 65 octets of sname, 2^16 seconds, half a second, a nil address)
CodecHeaders ==
    LET request == [ZeroMessage EXCEPT
                      !.BootpOperation = BootRequest, !.HwAddrType = BootpEthernet,
                      !.TransactionID = <<222, 173, 190, 239>>,
                      !.ClientIP = IPv4zero, !.YourIP = IPv4zero,
                      !.ServerIP = IPv4zero, !.RelayAgentIP = IPv4zero,
                      !.ClientHwAddr = <<1, 2, 3, 4, 5, 6>>]
    IN  { request,
          [request EXCEPT !.BootpOperation = BootReply, !.Hops = 3,
                          !.Seconds = Duration(U32(65535), 0),
                          !.Flags = BootpBroadcast,
                          !.YourIP = IPv4(192, 168, 99, 2),
                          !.ServerIP = <<0, 0, 0, 0, 0, 0, 0, 0, 0, 0, 255, 255,
                                         192, 168, 99, 1>>,
                          !.ClientHwAddr = Fill(7, 16),
                          !.ServerName = Fill(97, 64),
                          !.FileName = Fill(98, 128)],
          [request EXCEPT !.Seconds = Duration(U32(258), 0),
                          !.ClientHwAddr = <<9>>,
                          !.ServerName = <<104, 105>>,
                          !.FileName = <<120>>],
          [request EXCEPT !.BootpOperation = 3],
          [request EXCEPT !.ClientHwAddr = <<>>],
          [request EXCEPT !.ClientHwAddr = Fill(7, 17)],
          [request EXCEPT !.ServerName = <<104, 0, 105>>],
          [request EXCEPT !.ServerName = Fill(97, 65)],
          [request EXCEPT !.Seconds = Duration(U32(65536), 0)],
          [request EXCEPT !.Seconds = Duration(U32(1), 500000000)],
          [request EXCEPT !.ClientIP = NilIP] }

\* options of messages to marshal: well-formed ones of every variant, up to
\* the longest payload, and ones that are not (a payload one octet too long,
\* a duration with half a second, a code without variant, an IPv6 address)
CodecOptions ==
    { NoOptions,
      TypeOption(<<DHCPDiscover>>),
      SetOption(SetOption(TypeOption(<<DHCPOffer>>),
          ServerIdentifierOptionCode, <<IPv4(192, 168, 99, 1)>>),
          IPAddressLeaseTimeOptionCode, Duration(U32(86400), 0)),
      SetOption(SetOption(SetOption(NoOptions,
          DomainNameServerOptionCode, <<IPv4(10, 0, 0, 1), IPv4(10, 0, 0, 2)>>),
          InterfaceMTUOptionCode, <<1500, 576>>),
          HostNameOptionCode, <<104, 105>>),
      SetOption(NoOptions, MessageOptionCode, Fill(120, MaxPayload)),
      SetOption(NoOptions, MessageOptionCode, Fill(120, MaxPayload + 1)),
      SetOption(NoOptions, IPAddressLeaseTimeOptionCode, Duration(U32(1), 500000000)),
      SetOption(NoOptions, 99, <<1>>),
      SetOption(NoOptions, RequestIPAddressOptionCode,
                << <<254, 128, 0, 0, 0, 0, 0, 0, 0, 0, 0, 0, 0, 0, 0, 1>> >>) }

\* the messages to marshal
CodecMessages == {[h EXCEPT !.Options = o] : h \in CodecHeaders, o \in CodecOptions}

\* UnmarshallDHCPMessage(MarshallDHCPMessage(m)), the options iterated in
\* the given order
CallRoundTrip(m, order) ==
    /\ calc = NoCall
    /\ calc' = [op |-> "UnmarshallDHCPMessage", arg |-> m,
                res |-> LET marshalled == MarshallDHCPMessage(m, order)
                        IN  IF marshalled.kind = "panic"
                            THEN [kind |-> "panic", msg |-> ZeroMessage]
                            ELSE UnmarshallDHCPMessage(marshalled.bytes)]
    /\ CallOnly

\* one turn of the loop of UDPSender on the message taken from its channel:
\* the datagrams written, the lines printed, and whether the loop goes on;
\* written is whether WriteMsgUDP succeeds
SenderTurn(dm, order, written) ==
    LET marshalled == MarshallDHCPMessage(dm.Message, order)
    IN  IF marshalled.kind = "panic"
        THEN [kind |-> "panic", wire |-> <<>>, log |-> {}]
        ELSE IF written
        THEN [kind |-> "continue",
              wire |-> <<[bytes |-> marshalled.bytes, iface |-> dm.Interface]>>,
              log |-> {}]
        ELSE [kind |-> "continue", wire |-> <<>>,
              log |-> {"Unable to send DHCP message:"}]

\* the loop of UDPSender taking one message
CallUDPSender(dm, order, written) ==
    /\ calc = NoCall
    /\ calc' = [op |-> "UDPSender", arg |-> dm.Message,
                res |-> SenderTurn(dm, order, written)]
    /\ CallOnly

NextCall ==
    \/ \E area \in OptionAreas : CallDecodeDHCPOptions(area)
    \/ \E i \in pool.Start..pool.End : CallIndexFromAddress(U32(i))
    \/ \E m \in CodecMessages : \E order \in Orders(m.Options) : CallRoundTrip(m, order)
    \/ \E m \in CodecMessages : \E order \in Orders(m.Options) :
          \E written \in BOOLEAN :
             CallUDPSender([Message |-> m, Interface |-> "vboxnet0",
                            Remote |-> "0.0.0.0:68"], order, written)

SpecCall == Init /\ [][NextCall]_vars

-----------------------------------------------------------------------------
(* The server: the receiver, the loop of main, the pool actor, the sender   *)
(* and the shutdown, around one pool.                                       *)

\* the datagrams that arrive before the transport is quiet
MaxDatagrams == 2

\* the octets of the datagram of a message with the one option 53
TypedDatagram(mac, t) ==
    MarshallDHCPMessage(Directed(BootRequest, BootpEthernet, mac, IPv4zero, IPv4zero,
                                 TypeOption(<<t>>)).Message,
                        <<DHCPMessageTypeOptionCode>>).bytes

\* the datagrams of the clients: DISCOVERs of two clients, the REQUEST of
\* the first for 192.168.99.2 from this server, and DISCOVERs damaged in
\* the cookie, in the operation and by the loss of END
Datagrams ==
    [discover1 |-> TypedDatagram(<<1, 2, 3, 4, 5, 6>>, DHCPDiscover),
     discover2 |-> TypedDatagram(<<1, 2, 3, 4, 5, 7>>, DHCPDiscover),
     request1  |->
        MarshallDHCPMessage(
            Directed(BootRequest, BootpEthernet, <<1, 2, 3, 4, 5, 6>>, IPv4zero,
                     IPv4zero,
                     SetOption(SetOption(TypeOption(<<DHCPRequest>>),
                         RequestIPAddressOptionCode, <<IPv4(192, 168, 99, 2)>>),
                         ServerIdentifierOptionCode, <<ThisServer>>)).Message,
            <<DHCPMessageTypeOptionCode, RequestIPAddressOptionCode,
              ServerIdentifierOptionCode>>).bytes,
     cookie    |-> [TypedDatagram(<<1, 2, 3, 4, 5, 6>>, DHCPDiscover)
                       EXCEPT ![bootpHeaderSize + 1] = 0],
     operation |-> [TypedDatagram(<<1, 2, 3, 4, 5, 6>>, DHCPDiscover)
                       EXCEPT ![1] = 3],
     endless   |-> SubSeq(TypedDatagram(<<1, 2, 3, 4, 5, 6>>, DHCPDiscover), 1,
                          bootpHeaderSize + 4 + 3)]

\* the buffer of 576 zero octets after ReadMsgUDP has put the datagram in it
Buffer(datagram) == CopyInto(datagram, ReceiveBufferSize)

\* what UnmarshallDHCPMessage(buffer) returns for each of the datagrams
Unmarshalled ==
    [d \in DOMAIN Datagrams |-> UnmarshallDHCPMessage(Buffer(Datagrams[d]))]

\* the arrivals: a datagram on the interface of the pool, or a DISCOVER on
\* an interface no pool has
Arrivals ==
    {[d |-> d, iface |-> "vboxnet0"] : d \in DOMAIN Datagrams}
    \cup {[d |-> "discover1", iface |-> "eth1"]}

\* the process runs: no goroutine has panicked and main has not returned
Up == alive /\ ~task.panic /\ task.main # "exited"

\* the mutant puts the value in front of the buffered ones
Send_Front(ch, e) == [ch EXCEPT !.q = <<e>> \o @]

\* ch <- e on a channel with room
Send(ch, e) == [ch EXCEPT !.q = Append(@, e)]

\* the channel after a value was taken from it
Taken(ch) == [ch EXCEPT !.q = Tail(@)]

\* close(ch)
Closed(ch) == [ch EXCEPT !.closed = TRUE]

\* these tasks only: the pool, its clock and the calls stay as they are
ServerOnly == UNCHANGED <<pool, now, msg, out, log, alive, run, calc>>

\* UDPReceiver: a datagram is read and decoded, and the DirectedDHCPMessage is
\* sent on the channel whether or not the decoding returned an error
Receive(a) ==
    /\ Up
    /\ task.receiver = "run"
    /\ seen.arrived < MaxDatagrams
    /\ Len(receiver.q) < ChannelSize
    /\ IF Unmarshalled[a.d].kind = "panic"
       THEN /\ task' = [task EXCEPT !.panic = TRUE]
            /\ UNCHANGED receiver
       ELSE /\ receiver' = Send(receiver,
                                [dm |-> [Message   |-> Unmarshalled[a.d].msg,
                                         Interface |-> a.iface,
                                         Remote    |-> "0.0.0.0:68"],
                                 n  |-> seen.arrived + 1,
                                 ok |-> Unmarshalled[a.d].kind = "ok"])
            /\ UNCHANGED task
    /\ seen' = [seen EXCEPT !.arrived = @ + 1]
    /\ UNCHANGED <<inbox, sender, wire>>
    /\ ServerOnly

\* UDPReceiver: the read returns an error; the loop ends and the channel is
\* closed
ReadError ==
    /\ Up
    /\ task.receiver = "run"
    /\ receiver' = Closed(receiver)
    /\ task' = [task EXCEPT !.receiver = "done"]
    /\ UNCHANGED <<inbox, sender, wire, seen>>
    /\ ServerOnly

\* main: case msg, more := <-receiver with a message; it goes to the pool of
\* its interface, or is ignored when no pool has the interface
Dispatch ==
    /\ Up
    /\ task.main = "loop"
    /\ receiver.q # <<>>
    /\ receiver' = Taken(receiver)
    /\ IF Head(receiver.q).dm.Interface \in Interfaces
       THEN /\ Len(inbox.q) < ChannelSize
            /\ inbox' = Send(inbox, Head(receiver.q))
       ELSE UNCHANGED inbox
    /\ UNCHANGED <<sender, wire, task, seen>>
    /\ ServerOnly

\* main: the receiver channel is closed and empty; the loop is left
ReceiverClosed ==
    /\ Up
    /\ task.main = "loop"
    /\ receiver.q = <<>> /\ receiver.closed
    /\ task' = [task EXCEPT !.main = "closePools"]
    /\ UNCHANGED <<receiver, inbox, sender, wire, seen>>
    /\ ServerOnly

\* main: case sig := <-signals (INT, TERM or QUIT); the loop is left
Signal ==
    /\ Up
    /\ task.main = "loop"
    /\ task' = [task EXCEPT !.main = "closePools"]
    /\ UNCHANGED <<receiver, inbox, sender, wire, seen>>
    /\ ServerOnly

\* main returns: the deferred close(pools[i].Receiver)
ClosePools ==
    /\ Up
    /\ task.main = "closePools"
    /\ inbox' = Closed(inbox)
    /\ task' = [task EXCEPT !.main = "closeSender"]
    /\ UNCHANGED <<receiver, sender, wire, seen>>
    /\ ServerOnly

\* main returns: the deferred close(sender)
CloseSender ==
    /\ Up
    /\ task.main = "closeSender"
    /\ sender' = Closed(sender)
    /\ task' = [task EXCEPT !.main = "return"]
    /\ UNCHANGED <<receiver, inbox, wire, seen>>
    /\ ServerOnly

\* main returns: the deferred close(signals) and sock.Close(), and the end
\* of main, which ends the process with the goroutines where they are
Exit ==
    /\ Up
    /\ task.main = "return"
    /\ task' = [task EXCEPT !.main = "exited"]
    /\ UNCHANGED <<receiver, inbox, sender, wire, seen>>
    /\ ServerOnly

\* the replies of a step of the pool, numbered in the order of the sends
RECURSIVE SendAll(_, _, _)
SendAll(ch, replies, i) ==
    IF i > Len(replies) THEN ch
    ELSE SendAll(Send(ch, [dm |-> replies[i], p |-> seen.produced + i]), replies, i + 1)

\* Pool.Run: case msg, more := <-pool.Receiver with a message, and the
\* handler of its type; a send of a reply on the closed sender channel panics
Serve ==
    /\ Up
    /\ task.pool = "run"
    /\ inbox.q # <<>>
    /\ \E e \in {Head(inbox.q)} :
          /\ \/ Panic(e.dm)
             \/ Invalid(e.dm)
             \/ handleDiscover(e.dm)
             \/ handleRequest(e.dm)
             \/ handleDecline(e.dm)
             \/ handleRelease(e.dm)
             \/ handleInform(e.dm)
             \/ UnknownType(e.dm)
          /\ inbox' = Taken(inbox)
          /\ seen' = [seen EXCEPT !.handled = Append(@, [n |-> e.n, ok |-> e.ok]),
                                  !.produced = @ + Len(out')]
          /\ IF out' # <<>> /\ sender.closed
             THEN /\ task' = [task EXCEPT !.panic = TRUE]
                  /\ UNCHANGED sender
             ELSE /\ sender' = SendAll(sender, out', 1)
                  /\ UNCHANGED task
    /\ UNCHANGED <<receiver, wire, calc>>

\* Pool.Run: case <-ticker.C
Expire ==
    /\ Up
    /\ task.pool = "run"
    /\ Tick
    /\ UNCHANGED <<calc, server>>

\* Pool.Run: pool.Receiver is closed and empty; the loop is left
InboxClosed ==
    /\ Up
    /\ task.pool = "run"
    /\ inbox.q = <<>> /\ inbox.closed
    /\ task' = [task EXCEPT !.pool = "done"]
    /\ UNCHANGED <<receiver, inbox, sender, wire, seen>>
    /\ ServerOnly

\* UDPSender: a message is taken from the channel and written to the socket
\* (the datagram is kept as the message it carries), or the write returns an
\* error and the message is dropped
Transmit ==
    /\ Up
    /\ task.sender = "run"
    /\ sender.q # <<>>
    /\ sender' = Taken(sender)
    /\ \E written \in BOOLEAN :
          wire' = IF written THEN Append(wire, Head(sender.q)) ELSE wire
    /\ UNCHANGED <<receiver, inbox, task, seen>>
    /\ ServerOnly

\* UDPSender: the channel is closed and empty; the loop is left
SenderClosed ==
    /\ Up
    /\ task.sender = "run"
    /\ sender.q = <<>> /\ sender.closed
    /\ task' = [task EXCEPT !.sender = "done"]
    /\ UNCHANGED <<receiver, inbox, sender, wire, seen>>
    /\ ServerOnly

NextServer ==
    \/ \E a \in Arrivals : Receive(a)
    \/ ReadError
    \/ Dispatch
    \/ ReceiverClosed
    \/ Signal
    \/ ClosePools
    \/ CloseSender
    \/ Exit
    \/ Serve
    \/ Expire
    \/ InboxClosed
    \/ Transmit
    \/ SenderClosed

SpecServer == Init /\ [][NextServer]_vars

\* the scheduler runs every goroutine that can take a step; datagrams,
\* signals and read errors come when they come
SpecServerFair ==
    /\ SpecServer
    /\ WF_vars(Dispatch) /\ WF_vars(ReceiverClosed)
    /\ WF_vars(ClosePools) /\ WF_vars(CloseSender) /\ WF_vars(Exit)
    /\ WF_vars(Serve) /\ WF_vars(InboxClosed)
    /\ WF_vars(Transmit) /\ WF_vars(SenderClosed)

-----------------------------------------------------------------------------
(* Vocabulary of the properties. *)

\* a <= b for two addresses (or two uint32) as big-endian numbers
IPLeq(a, b) ==
    \/ a[1] < b[1]
    \/ a[1] = b[1] /\ a[2] < b[2]
    \/ a[1] = b[1] /\ a[2] = b[2] /\ a[3] < b[3]
    \/ a[1] = b[1] /\ a[2] = b[2] /\ a[3] = b[3] /\ a[4] <= b[4]

\* network.ip | i, the address the specification gives host index i
HostAddress(i) == Or32(Uint32OfIP(pool.Network.IP), U32(i))

\* the address is within [network.ip | start, network.ip | end]
InRange(ip) == IPLeq(HostAddress(pool.Start), ip) /\ IPLeq(ip, HostAddress(pool.End))

\* the last step handled a message of type t that passed basicValidation
Handled(t) ==
    /\ Len(msg) = 1
    /\ ~TypePanics(msg[1].Message)
    /\ ~basicValidation(msg[1].Message)
    /\ Type(msg[1].Message) = t

\* the last step sent exactly one reply, with option 53 = t
Replied(t) ==
    /\ Len(out) = 1
    /\ out[1].Message.Options[DHCPMessageTypeOptionCode] = <<t>>

\* the client of the message the last step handled
Client == newClientIdentifier(msg[1].Message)

\* the option is present with at least one value
Carries(m, code) ==
    IF code \in DOMAIN m.Options THEN Len(m.Options[code]) > 0 ELSE FALSE

\* the REQUEST names this server in option 54
NamesThisServer(dm) ==
    IF Carries(dm.Message, ServerIdentifierOptionCode)
    THEN dm.Message.Options[ServerIdentifierOptionCode] = <<serverIP(dm.Interface)>>
    ELSE FALSE

\* the REQUEST names another server in option 54
NamesOtherServer(dm) ==
    IF Carries(dm.Message, ServerIdentifierOptionCode)
    THEN ~IPEqual(dm.Message.Options[ServerIdentifierOptionCode][1], serverIP(dm.Interface))
    ELSE FALSE

\* the REQUEST has no option 50, or one with an address
SoundOption50(m) ==
    RequestIPAddressOptionCode \in DOMAIN m.Options => Carries(m, RequestIPAddressOptionCode)

\* the address a REQUEST asks for: the first address of option 50, else ciaddr
Requested(m) ==
    IF Carries(m, RequestIPAddressOptionCode)
    THEN m.Options[RequestIPAddressOptionCode][1]
    ELSE m.ClientIP

\* the lease table without the leases of the client
Without(id) ==
    [k \in {j \in Keys : ~equals(pool.Leases[j].ID, id)} |-> pool.Leases[k]]

\* the host part of the address
HostIndex(ip) == And32(Uint32OfIP(ip), Not32(Uint32OfIP(pool.Network.Mask)))

\* the address is in the pool's network, with a host index in [start, end]
InPool(ip) ==
    /\ And32(Uint32OfIP(ip), Uint32OfIP(pool.Network.Mask)) = Uint32OfIP(pool.Network.IP)
    /\ IPLeq(U32(pool.Start), HostIndex(ip))
    /\ IPLeq(HostIndex(ip), U32(pool.End))

\* the table holds a lease of the client
Holds(id) == \E k \in Keys : equals(pool.Leases[k].ID, id)

\* the table holds a lease of another client
HoldsOther(id) == \E k \in Keys : ~equals(pool.Leases[k].ID, id)

-----------------------------------------------------------------------------
(* C1.  Pool uniqueness: in every reachable state no two distinct entries  *)
(* of the lease table hold the same IPv4 address.                          *)
C1_PoolUniqueness ==
    \A k1 \in Keys, k2 \in Keys :
        k1 # k2 => pool.Leases[k1].Address # pool.Leases[k2].Address

\* two leases are held at once, in the pool whose indices carry into the
\* network part of the address
C1_Witness ==
    /\ pool.Start = 200
    /\ Cardinality(Keys) = 2

(* C2.  At most one lease per client: in every reachable state no two      *)
(* distinct leases have owners that are equal as client identifiers.       *)
C2_OneLeasePerClient ==
    \A k1 \in Keys, k2 \in Keys :
        k1 # k2 => ~equals(pool.Leases[k1].ID, pool.Leases[k2].ID)

\* a client that holds a lease sent DISCOVER again and was offered the same
\* lease, while another client holds the other lease
C2_Witness ==
    /\ Handled(DHCPDiscover)
    /\ Replied(DHCPOffer)
    /\ log = {Line("Sending offer")}
    /\ Cardinality(Keys) = 2
    /\ \E k \in Keys : equals(pool.Leases[k].ID, Client)

(* C3.  Range bound: every key of the lease table is in [start, end], and  *)
(* every lease's address, hence the yiaddr of every OFFER and ACK, lies in *)
(* [network.ip | start, network.ip | end].                                 *)
C3_RangeBound ==
    /\ \A k \in Keys :
          /\ IPLeq(U32(pool.Start), k) /\ IPLeq(k, U32(pool.End))
          /\ InRange(pool.Leases[k].Address)
    /\ (Replied(DHCPOffer) \/ Replied(DHCPAck)) => InRange(out[1].Message.YourIP)

(* C4.  Request/Ack after Offer: when an OFFER for address X has just been *)
(* sent to client M, and the next message is a REQUEST from M with option  *)
(* 50 = X and option 54 = this server's IP, the reply is an ACK with       *)
(* yiaddr = X, and the table then holds X for M, InUse, expiring one       *)
(* lifetime from now.                                                      *)
C4_RequestAfterOffer ==
    [][ ( /\ Handled(DHCPDiscover)
          /\ Replied(DHCPOffer)
          /\ Handled(DHCPRequest)'
          /\ msg'[1].Message.ClientHwAddr = out[1].Message.ClientHwAddr
          /\ NamesThisServer(msg'[1])
          /\ Carries(msg'[1].Message, RequestIPAddressOptionCode)
          /\ msg'[1].Message.Options[RequestIPAddressOptionCode] = <<out[1].Message.YourIP>> )
        => /\ Replied(DHCPAck)'
           /\ out'[1].Message.YourIP = out[1].Message.YourIP
           /\ \E k \in DOMAIN pool'.Leases :
                 /\ pool'.Leases[k].Address = out[1].Message.YourIP
                 /\ equals(pool'.Leases[k].ID, Client')
                 /\ pool'.Leases[k].State = LeaseInUse
                 /\ pool'.Leases[k].Expires = now' + pool.Lifetime
      ]_vars

(* C5.  Nak on wrong owner: a REQUEST from client M2 that carries option   *)
(* 54 = this server's IP and asks for an address whose lease is owned by   *)
(* another client produces exactly one NAK (option 53 = 6, a non-empty     *)
(* option 56, yiaddr zero) and leaves the lease table unchanged.           *)
C5_NakOnWrongOwner ==
    [][ ( /\ Handled(DHCPRequest)'
          /\ NamesThisServer(msg'[1])
          /\ SoundOption50(msg'[1].Message)
          /\ \E k \in Keys :
                /\ pool.Leases[k].Address = Requested(msg'[1].Message)
                /\ ~equals(pool.Leases[k].ID, Client') )
        => /\ Replied(DHCPNak)'
           /\ Carries(out'[1].Message, MessageOptionCode)
           /\ out'[1].Message.YourIP = IPv4zero
           /\ pool'.Leases = pool.Leases
      ]_vars

\* a client asked, by option 50 and by ciaddr in turn, for the address
\* another client holds; this is the answer to option 50
C5_Witness ==
    /\ Handled(DHCPRequest)
    /\ NamesThisServer(msg[1])
    /\ Carries(msg[1].Message, RequestIPAddressOptionCode)
    /\ \E k \in Keys :
          /\ pool.Leases[k].Address = Requested(msg[1].Message)
          /\ ~equals(pool.Leases[k].ID, Client)
    /\ Replied(DHCPNak)

(* C6.  Ack only for an in-pool address: a REQUEST whose requested IP is   *)
(* outside the pool's network, or whose host index is outside              *)
(* [start, end], produces no ACK and changes no lease; every ACK's yiaddr  *)
(* is the requested IP.                                                    *)
C6_AckOnlyInPool ==
    [][ Handled(DHCPRequest)'
        => /\ ~InPool(Requested(msg'[1].Message))
              => /\ ~Replied(DHCPAck)'
                 /\ pool'.Leases = pool.Leases
           /\ Replied(DHCPAck)' => out'[1].Message.YourIP = Requested(msg'[1].Message)
      ]_vars

(* C7.  Server-identifier mismatch: a REQUEST carrying option 54 different *)
(* from this server's IP on the arrival interface produces no reply,       *)
(* removes every lease owned by the requesting client, and leaves every    *)
(* lease of any other client unchanged.                                    *)
C7_ServerIdMismatch ==
    [][ ( /\ Handled(DHCPRequest)'
          /\ NamesOtherServer(msg'[1]) )
        => /\ out' = <<>>
           /\ pool'.Leases = Without(Client')
      ]_vars

(* C7, amended.  A REQUEST that carries option 50 with an address, or has  *)
(* no option 50 and a nonzero ciaddr, and carries option 54 different from *)
(* this server's IP on the arrival interface, produces no reply, removes   *)
(* every lease owned by the requesting client, and leaves every lease of   *)
(* any other client unchanged.                                             *)
C7_ServerIdMismatchWithAddress ==
    [][ ( /\ Handled(DHCPRequest)'
          /\ NamesOtherServer(msg'[1])
          /\ SoundOption50(msg'[1].Message)
          /\ ( \/ Carries(msg'[1].Message, RequestIPAddressOptionCode)
               \/ ~IPEqual(msg'[1].Message.ClientIP, IPv4zero) ) )
        => /\ out' = <<>>
           /\ pool'.Leases = Without(Client')
      ]_vars

\* the REQUEST naming another server freed the lease of its client and left
\* the lease of another client
C7_Witness ==
    /\ Handled(DHCPRequest)
    /\ NamesOtherServer(msg[1])
    /\ out = <<>>
    /\ \E l \in log : l.text = "Freeing"
    /\ ~Holds(Client)
    /\ HoldsOther(Client)

(* C8.  Release: a RELEASE whose siaddr equals this server's IP on the     *)
(* arrival interface removes every lease of the sending client and no      *)
(* lease of another client; a RELEASE whose siaddr differs leaves the      *)
(* lease table unchanged; in both cases nothing is sent.                   *)
C8_Release ==
    [][ Handled(DHCPRelease)'
        => /\ out' = <<>>
           /\ pool'.Leases =
                 IF msg'[1].Message.ServerIP = serverIP(msg'[1].Interface)
                 THEN Without(Client')
                 ELSE pool.Leases
      ]_vars

\* a RELEASE addressed to this server freed the lease of its client and left
\* the lease of another client
C8_Witness ==
    /\ Handled(DHCPRelease)
    /\ msg[1].Message.ServerIP = serverIP(msg[1].Interface)
    /\ out = <<>>
    /\ \E l \in log : l.text = "Freeing"
    /\ ~Holds(Client)
    /\ HoldsOther(Client)

(* C9.  Exhaustion: a DISCOVER from a client without a lease, arriving     *)
(* when every index of [start, end] is leased, produces no reply and does  *)
(* not change the lease table; in particular the DISCOVER of one more      *)
(* client after end-start+1 consecutive DISCOVERs of pairwise distinct     *)
(* clients on an initially empty Sequential pool.                          *)
C9_Exhaustion ==
    [][ ( /\ Handled(DHCPDiscover)'
          /\ \/ /\ ~Holds(Client')
                /\ \A i \in pool.Start..pool.End : U32(i) \in Keys
             \/ /\ pool.Algorithm = Sequential
                /\ run # Broken
                /\ Len(run) = pool.End - pool.Start + 1
                /\ \A k \in 1..Len(run) : run[k] # msg'[1].Message.ClientHwAddr )
        => /\ out' = <<>>
           /\ pool'.Leases = pool.Leases
      ]_vars

\* one more client than the pool has addresses sent DISCOVER in a row from
\* the start, and the last one was dropped
C9_Witness ==
    /\ Handled(DHCPDiscover)
    /\ run # Broken
    /\ Len(run) = pool.End - pool.Start + 2
    /\ Cardinality(Keys) = pool.End - pool.Start + 1
    /\ ~Holds(Client)
    /\ out = <<>>

(* C10.  Sequential determinism: with algorithm = Sequential and an        *)
(* initially empty lease table, after a run of DISCOVERs from pairwise     *)
(* distinct clients the k-th of them (k = 0, 1, ...) holds the lease of    *)
(* index start + k, for as long as the range lasts, and no other index is  *)
(* leased.                                                                 *)
C10_SequentialDeterminism ==
    (pool.Algorithm = Sequential /\ run # Broken)
    => /\ \A k \in 1..Len(run) :
              k <= pool.End - pool.Start + 1
              => /\ U32(pool.Start + k - 1) \in Keys
                 /\ pool.Leases[U32(pool.Start + k - 1)].ID.Mac = run[k]
       /\ \A i \in pool.Start..pool.End :
              U32(i) \in Keys => i - pool.Start + 1 <= Len(run)

\* two clients sent DISCOVER in a row to an empty Sequential pool
C10_Witness ==
    /\ pool.Algorithm = Sequential
    /\ run # Broken
    /\ Len(run) = 2
    /\ Replied(DHCPOffer)

(* C11.  Expiry: after an expiry tick no lease whose expires instant is    *)
(* earlier than the tick time remains in the lease table, and every lease  *)
(* whose expires instant is later than the tick time is still present,     *)
(* with unchanged address, owner, state and expiry.                        *)
C11_Expiry ==
    [][ (msg' = <<>> /\ now' = now + 1)
        => /\ \A k \in DOMAIN pool'.Leases : ~(pool'.Leases[k].Expires < now')
           /\ \A k \in Keys :
                 pool.Leases[k].Expires > now'
                 => /\ k \in DOMAIN pool'.Leases
                    /\ pool'.Leases[k] = pool.Leases[k]
      ]_vars

\* a tick has deleted a lease and kept one that expires later
C11_Witness ==
    /\ msg = <<>>
    /\ \E l \in log : l.text = "Expiration, freeing"
    /\ \E k \in Keys : pool.Leases[k].Expires > now

(* C12.  Idempotent renewal: a REQUEST for the address of an existing      *)
(* lease, sent by the lease's owner with option 54 equal to this server's  *)
(* IP or absent, leaves the lease's key, address and owner unchanged, sets *)
(* its state to InUse and its expires to now + lifetime, and changes no    *)
(* other lease.                                                            *)
C12_IdempotentRenewal ==
    [][ \A k \in Keys :
          ( /\ Handled(DHCPRequest)'
            /\ SoundOption50(msg'[1].Message)
            /\ \/ NamesThisServer(msg'[1])
               \/ ServerIdentifierOptionCode \notin DOMAIN msg'[1].Message.Options
            /\ pool.Leases[k].Address = Requested(msg'[1].Message)
            /\ equals(pool.Leases[k].ID, Client') )
          => pool'.Leases =
                [pool.Leases EXCEPT ![k] = [@ EXCEPT !.State = LeaseInUse,
                                                     !.Expires = now' + pool.Lifetime]]
      ]_vars

\* the message is well-formed: operation 1 or 2, a hardware address of 1 to
\* 16 octets, names within their fields and without NUL, whole seconds below
\* 2^16, IPv4 addresses, and every option of a code that has a variant, with
\* a value of that variant (IPv4 addresses, whole seconds) of at most 255
\* octets on the wire
WellFormed(m) ==
    /\ m.BootpOperation \in {BootRequest, BootReply}
    /\ Len(m.ClientHwAddr) \in 1..16
    /\ Len(m.ServerName) <= 64 /\ \A i \in DOMAIN m.ServerName : m.ServerName[i] # 0
    /\ Len(m.FileName) <= 128 /\ \A i \in DOMAIN m.FileName : m.FileName[i] # 0
    /\ m.Seconds.nsec = 0 /\ m.Seconds.sec[1] = 0 /\ m.Seconds.sec[2] = 0
    /\ \A ip \in {m.ClientIP, m.YourIP, m.ServerIP, m.RelayAgentIP} : To4(ip) # NilIP
    /\ \A c \in DOMAIN m.Options :
          /\ Variant(c) # "none"
          /\ Variant(c) = "DurationDHCPOption" => m.Options[c].nsec = 0
          /\ ~OptionEncodePanics(Variant(c), m.Options[c])
          /\ Len(OptionEncode(Variant(c), m.Options[c])) <= MaxPayload

\* the two values of an option of the code are equal, addresses compared as
\* net.IP.Equal compares them
OptionEqual(c, a, b) ==
    IF Variant(c) = "IPDHCPOption"
    THEN Len(a) = Len(b) /\ \A i \in DOMAIN a : IPEqual(a[i], b[i])
    ELSE a = b

\* the two messages are equal field by field and option by option
MessageEqual(a, b) ==
    /\ a.BootpOperation = b.BootpOperation
    /\ a.HwAddrType = b.HwAddrType
    /\ a.Hops = b.Hops
    /\ a.TransactionID = b.TransactionID
    /\ a.Seconds = b.Seconds
    /\ a.Flags = b.Flags
    /\ IPEqual(a.ClientIP, b.ClientIP)
    /\ IPEqual(a.YourIP, b.YourIP)
    /\ IPEqual(a.ServerIP, b.ServerIP)
    /\ IPEqual(a.RelayAgentIP, b.RelayAgentIP)
    /\ a.ClientHwAddr = b.ClientHwAddr
    /\ a.ServerName = b.ServerName
    /\ a.FileName = b.FileName
    /\ DOMAIN a.Options = DOMAIN b.Options
    /\ \A c \in DOMAIN a.Options : OptionEqual(c, a.Options[c], b.Options[c])

(* C13.  Receiver drops undecodable datagrams: a datagram whose decoding   *)
(* fails is logged and dropped; the receiver never sends a                 *)
(* DirectedDHCPMessage for it on the channel main reads, and no pool actor  *)
(* ever takes it.                                                          *)
C13_ReceiverDrops ==
    /\ \A i \in DOMAIN receiver.q : receiver.q[i].ok
    /\ \A i \in DOMAIN inbox.q : inbox.q[i].ok
    /\ \A i \in DOMAIN seen.handled : seen.handled[i].ok

(* C14.  Sender drops unencodable messages: when the marshalling of a      *)
(* message fails (an option payload longer than 255 octets), the sender    *)
(* prints the error, writes nothing to the socket for that message, and    *)
(* goes on with the next message of its channel.                           *)
C14_SenderDrops ==
    ( /\ calc.op = "UDPSender"
      /\ \E c \in DOMAIN calc.arg.Options :
            /\ ~OptionEncodePanics(Variant(c), calc.arg.Options[c])
            /\ Len(OptionEncode(Variant(c), calc.arg.Options[c])) > MaxPayload )
    => /\ calc.res.kind = "continue"
       /\ calc.res.wire = <<>>
       /\ calc.res.log # {}

(* C15.  Graceful shutdown terminates every task: once main has left its  *)
(* loop (on a signal, or when the receiver channel is closed after a read  *)
(* error) it closes the inbox of every pool and the sender channel; the    *)
(* pool actor then finishes the message it is handling and leaves its      *)
(* loop, and the sender leaves its loop after draining its channel, so     *)
(* eventually the pool actor and the sender have terminated.               *)
C15_GracefulShutdown ==
    (task.main # "loop") ~> (task.pool = "done" /\ task.sender = "done")

(* C16.  FIFO ordering: the messages arriving on the interfaces of the     *)
(* pool are handled by the pool actor in the order of arrival, and the     *)
(* replies the pool produces are written by the sender in the order the    *)
(* pool produced them; none overtakes an earlier one.                      *)
C16_Fifo ==
    /\ \A i, j \in DOMAIN seen.handled :
          i < j => seen.handled[i].n < seen.handled[j].n
    /\ \A i, j \in DOMAIN wire : i < j => wire[i].p < wire[j].p

\* two datagrams were handled and both replies are on the wire
C16_Witness ==
    /\ Len(seen.handled) = 2
    /\ Len(wire) = 2
    /\ wire[1].p = 1 /\ wire[2].p = 2

(* C17.  Round-trip codec: for every well-formed message m,                *)
(* UnmarshallDHCPMessage(MarshallDHCPMessage(m)) succeeds and returns a    *)
(* message equal to m field by field and option by option, whatever the    *)
(* order in which the options were written.                                *)
C17_RoundTrip ==
    (calc.op = "UnmarshallDHCPMessage" /\ WellFormed(calc.arg))
    => (calc.res.kind = "ok" /\ MessageEqual(calc.res.msg, calc.arg))

\* a well-formed message with full names, a 16-octet hardware address, an
\* address in the 16-byte form and three options has made the round trip
C17_Witness ==
    /\ calc.op = "UnmarshallDHCPMessage"
    /\ WellFormed(calc.arg)
    /\ Len(calc.arg.ServerName) = 64
    /\ Len(calc.arg.ClientHwAddr) = 16
    /\ Len(calc.arg.ServerIP) = 16
    /\ Cardinality(DOMAIN calc.arg.Options) = 3
    /\ calc.res.kind = "ok"

(* C18.  Option TLV decoding: DecodeDHCPOptions returns successfully at    *)
(* the first END in code position, with the entries of the options before  *)
(* it, skips PAD without an entry, skips an option of an unrecognised code *)
(* by its length, and returns an error, never reading past the end of the  *)
(* input, when a length octet is missing, a length exceeds the octets left *)
(* or there is no END.                                                     *)
C18_OptionTLV ==
    ( /\ calc.op = "DecodeDHCPOptions"
      /\ \A i \in 1..Len(calc.arg.whole) : calc.arg.whole[i] \in SoundChunks )
    => LET whole == calc.arg.whole
           ends == {i \in 1..Len(whole) : whole[i].bytes = <<255>>}
           before == IF ends = {} THEN 1..Len(whole)
                     ELSE {i \in 1..Len(whole) : \A e \in ends : i < e}
           codes == {whole[i].code : i \in before} \ {0}
           last(c) == CHOOSE i \in before :
                         /\ whole[i].code = c
                         /\ \A j \in before : whole[j].code = c => j <= i
       IN  /\ calc.res.kind # "panic"
           /\ (ends # {} \/ calc.arg.tail = <<255>>)
                 => /\ calc.res.kind = "ok"
                    /\ calc.res.options = [c \in codes |-> whole[last(c)].value]
           /\ (ends = {} /\ calc.arg.tail # <<255>>) => calc.res.kind = "error"

(* C19.  Option payload-length validation: the decoder accepts an option   *)
(* of a known code only with a payload length its variant allows: a        *)
(* positive multiple of 4 for the address lists, exactly 4 for the         *)
(* durations, a positive multiple of 2 for the uint16 lists, exactly 1 for *)
(* the message type; any other length fails the decoding, so that no       *)
(* decoded options map has an empty option 50, 53 or 54.                   *)
C19_PayloadLength ==
    calc.op = "DecodeDHCPOptions"
    => LET whole == calc.arg.whole
           ends == {i \in 1..Len(whole) : whole[i].bytes = <<255>>}
           before == IF ends = {} THEN 1..Len(whole)
                     ELSE {i \in 1..Len(whole) : \A e \in ends : i < e}
       IN  /\ (\E i \in before : whole[i] \in UnsoundChunks) => calc.res.kind # "ok"
           /\ calc.res.kind = "ok"
                 => \A c \in DOMAIN calc.res.options :
                       /\ Variant(c) \in {"IPDHCPOption", "Uint16DHCPOption"}
                             => Len(calc.res.options[c]) > 0
                       /\ c = DHCPMessageTypeOptionCode => Len(calc.res.options[c]) = 1

(* C20.  Index/address inverse: for every index i of [start, end],         *)
(* indexFromAddress(addressFromIndex(i)) succeeds and returns i.           *)
C20_IndexAddressInverse ==
    calc.op = "indexFromAddress" => (~calc.res.err /\ calc.res.idx = calc.arg)

(* C21.  A message without a usable option 53 is typed Unknown and does    *)
(* not stop the pool: when the pool actor takes a message whose option 53  *)
(* is absent, empty or not in 1..8, the message is dropped with no reply   *)
(* and no lease change, and the actor goes on serving; it never crashes.   *)
C21_UnknownTypeKeepsServing ==
    [][ ( /\ Len(msg') = 1
          /\ \/ ~Carries(msg'[1].Message, DHCPMessageTypeOptionCode)
             \/ Type(msg'[1].Message) = DHCPUnknown )
        => /\ alive'
           /\ out' = <<>>
           /\ pool'.Leases = pool.Leases ]_vars

\* no lease of the table has the address
Unleased(ip) == \A k \in Keys : pool.Leases[k].Address # ip

\* a lease of another client has the address
LeasedToOther(ip, id) ==
    \E k \in Keys : pool.Leases[k].Address = ip /\ ~equals(pool.Leases[k].ID, id)

(* C22.  NAK only in SELECTING: the pool sends a NAK only in reply to a    *)
(* REQUEST that carried option 54 equal to this server's address; a        *)
(* REQUEST without option 54 whose address is outside the pool, unleased   *)
(* or leased to another client, and a REQUEST with neither option 50 nor a *)
(* nonzero ciaddr, produce no reply and no lease change.                   *)
C22_NakOnlySelecting ==
    [][ /\ (\E i \in DOMAIN out' :
               out'[i].Message.Options[DHCPMessageTypeOptionCode] = <<DHCPNak>>)
              => (Handled(DHCPRequest)' /\ NamesThisServer(msg'[1]))
        /\ ( /\ Handled(DHCPRequest)'
             /\ ServerIdentifierOptionCode \notin DOMAIN msg'[1].Message.Options
             /\ SoundOption50(msg'[1].Message)
             /\ \/ ~InPool(Requested(msg'[1].Message))
                \/ Unleased(Requested(msg'[1].Message))
                \/ LeasedToOther(Requested(msg'[1].Message), Client') )
              => (out' = <<>> /\ pool'.Leases = pool.Leases)
        /\ ( /\ Handled(DHCPRequest)'
             /\ RequestIPAddressOptionCode \notin DOMAIN msg'[1].Message.Options
             /\ msg'[1].Message.ClientIP = IPv4zero )
              => (out' = <<>> /\ pool'.Leases = pool.Leases) ]_vars

(* C23.  Messages that change nothing: a message that fails the basic      *)
(* validation (operation not BOOTREQUEST, or hardware type not ethernet),  *)
(* and every valid DECLINE, INFORM or message of a type the pool has no    *)
(* handler for, leaves the lease table as it is and sends no reply.        *)
C23_NoEffect ==
    [][ ( /\ Len(msg') = 1
          /\ \/ basicValidation(msg'[1].Message)
             \/ \E t \in {DHCPDecline, DHCPInform, DHCPUnknown, DHCPOffer, DHCPAck,
                          DHCPNak} : Handled(t)' )
        => (pool'.Leases = pool.Leases /\ out' = <<>>) ]_vars

\* a DECLINE of a client with a lease was handled, and the lease is there
C23_Witness ==
    /\ Handled(DHCPDecline)
    /\ Holds(Client)
    /\ out = <<>>

(* C24.  A Reserved lease does not survive an expiry tick: a lease created *)
(* by handleDiscover is Reserved with expires at the zero instant, so the  *)
(* first tick after the OFFER deletes it; every lease present right after  *)
(* a tick is InUse with expires not earlier than the tick time.            *)
C24_ReservedExpires ==
    [][ /\ Handled(DHCPDiscover)'
           => \A k \in (DOMAIN pool'.Leases) \ Keys :
                 /\ pool'.Leases[k].State = LeaseReserved
                 /\ pool'.Leases[k].Expires = 0
        /\ (msg' = <<>> /\ now' = now + 1)
           => /\ \A k \in Keys :
                    pool.Leases[k].State = LeaseReserved => k \notin DOMAIN pool'.Leases
              /\ \A k \in DOMAIN pool'.Leases :
                    /\ pool'.Leases[k].State = LeaseInUse
                    /\ pool'.Leases[k].Expires >= now' ]_vars

\* the first tick has deleted a lease, which was Reserved since a lease in
\* use expires later, and has kept a lease in use
C24_Witness ==
    /\ msg = <<>>
    /\ now = 2
    /\ \E l \in log : l.text = "Expiration, freeing"
    /\ \E k \in Keys : pool.Leases[k].State = LeaseInUse

(* C25.  No reply is sent on a closed sender inbox: in every interleaving  *)
(* of the shutdown with the pool actor, pool inboxes closed with buffered  *)
(* messages included, no step of the pool actor that handles a message and *)
(* sends a reply is taken after the dispatcher has closed the sender       *)
(* channel.                                                                *)
C25_NoSendOnClosed ==
    [][ (seen'.handled # seen.handled /\ out' # <<>>) => ~sender.closed ]_vars

\* datagram n is buffered in the inbox of the pool
InInbox(n) == \E i \in DOMAIN inbox.q : inbox.q[i].n = n

\* the pool actor has taken datagram n and run its handler
HandledByPool(n) == \E i \in DOMAIN seen.handled : seen.handled[i].n = n

\* reply p is buffered in the sender channel
InSender(p) == \E i \in DOMAIN sender.q : sender.q[i].p = p

\* reply p was written to the socket
OnWire(p) == \E i \in DOMAIN wire : wire[i].p = p

\* before the shutdown, with the process running and a message buffered in
\* one of the channels, no task that takes from a channel can take its step:
\* main waits to send on a full inbox, the pool actor and the sender wait
Blocked ==
    /\ Up
    /\ task.main = "loop"
    /\ receiver.q # <<>> \/ inbox.q # <<>> \/ sender.q # <<>>
    /\ ~ENABLED (Dispatch \/ Serve \/ Transmit)

(* C26.  The bounded pipeline does not deadlock: with the receiver         *)
(* channel, the pool inbox and the sender channel bounded to 10, under     *)
(* weak fairness of every task, no state before the shutdown has all tasks *)
(* blocked on channel operations, every message the dispatcher forwards to *)
(* the pool is eventually handled by the pool actor, and every reply the   *)
(* pool enqueues is eventually taken by the sender and written.            *)
C26_NoDeadlock ==
    /\ [](~Blocked)
    /\ \A n \in 1..MaxDatagrams : InInbox(n) ~> HandledByPool(n)
    /\ \A p \in 1..MaxDatagrams : InSender(p) ~> ~InSender(p)

====
